---------------------------- MODULE Spec2Model ----------------------------
(***************************************************************************)
(* Signed two's-complement integers on the TEAL stack machine, as built by *)
(* arithmetic/sinteger.py: the encoder SInt and the instruction sequences  *)
(* that SInt_Add, SInt_Sub, SInt_rshift and SInt_twos_complement emit,     *)
(* executed opcode by opcode on a stack of unsigned words.                 *)
(*                                                                         *)
(* The machine word is WordBits wide.  The program's word is 64 bits; the  *)
(* model keeps every width-dependent literal of the source as a function   *)
(* of WordBits (63 is SignBit, 64 is WordBits, 2**64-1 is MaxWord), so     *)
(* that all operand words can be enumerated.                               *)
(*                                                                         *)
(* A sequence is the lowering of the expression a subroutine body builds:  *)
(* the code of an expression's arguments in order, then its opcode.  The   *)
(* code of an operand (left, right) stands in the sequence wherever the    *)
(* body uses the operand.                                                  *)
(***************************************************************************)
EXTENDS Integers, Sequences, FiniteSets

\* Width of the machine word in bits (64 in the program, scaled down).
WordBits == 4
\* Largest number of words already on the stack when a sequence starts.
MaxInitStack == 2

VARIABLES
    lits,       \* the integers given to SInt so far, in order
    args,       \* the constants SInt returned for them (operand words)
    err,        \* "none", or the exception a call of SInt raised
    last,       \* the latest call of SInt: [n, ok, value]
    fn,         \* the subroutine whose sequence is executing, "none" before
    code,       \* the emitted instruction sequence
    pc,         \* index in code of the next instruction
    stack,      \* the stack, bottom first; cells are [v, dup]
    S0,         \* the words on the stack before the sequence starts
    status,     \* "build", "run", "done" or "trap"
    trapOp,     \* the opcode that trapped, "none" otherwise
    evals,      \* how often each operand sub-expression was evaluated
    signSrc     \* where the words read by getbit came from

vars == <<lits, args, err, last, fn, code, pc, stack, S0, status, trapOp,
          evals, signSrc>>

---------------------------------------------------------------------------
\* Words and bit operations.

RECURSIVE Pow2(_)
Pow2(n) == IF n = 0 THEN 1 ELSE 2 * Pow2(n - 1)

\* 2**64
Word2 == Pow2(WordBits)
\* 2**64 - 1, the all-ones word
MaxWord == Word2 - 1
\* 63, the index of the sign bit
SignBit == WordBits - 1
\* -2**63 and 2**63 - 1
MinSInt == -Pow2(WordBits - 1)
MaxSInt == Pow2(WordBits - 1) - 1

Words == 0 .. MaxWord

\* Python's ^ on non-negative integers and TEAL's ^ on words.
RECURSIVE BitXor(_, _)
BitXor(x, y) ==
    IF x = 0 /\ y = 0 THEN 0
    ELSE (((x % 2) + (y % 2)) % 2) + 2 * BitXor(x \div 2, y \div 2)

\* TEAL's | on words.
RECURSIVE BitOr(_, _)
BitOr(x, y) ==
    IF x = 0 /\ y = 0 THEN 0
    ELSE (IF x % 2 = 1 \/ y % 2 = 1 THEN 1 ELSE 0)
         + 2 * BitOr(x \div 2, y \div 2)

\* Bit i of word x (bit 0 is the least significant).
GetBitOf(x, i) == (x \div Pow2(i)) % 2

Abs(n) == IF n < 0 THEN -n ELSE n

---------------------------------------------------------------------------
\* SInt: the encoder (runs when the expression tree is built).

\* -2 ** 63 <= value <= 2 ** 63 - 1
InRange(n) == MinSInt <= n /\ n <= MaxSInt

\* SInt's constant with the increment missing (ones' complement).
SIntValue_OnesComplement(value) ==
    IF value < 0 THEN BitXor(Abs(value), MaxWord) % Word2 ELSE value

\* The constant SInt pushes for an integer in range.
SIntValue(value) ==
    IF value < 0 THEN (BitXor(Abs(value), MaxWord) + 1) % Word2 ELSE value

\* SInt(value): the constant, or the exception raised.
SInt(value) ==
    IF ~InRange(value)
    THEN [n |-> value, ok |-> FALSE, value |-> 0]
    ELSE [n |-> value, ok |-> TRUE, value |-> SIntValue(value)]

\* The integers offered to SInt: the signed range and two on either side.
LitInputs == (MinSInt - 2) .. (MaxSInt + 2)

---------------------------------------------------------------------------
\* Instructions and the emitted sequences.

Ins(o, a) == [op |-> o, arg |-> a]

\* Evaluation of operand sub-expression i (1 = left, 2 = right).
Operand(i) == <<Ins("expr", i)>>

\* Int(c)
IntC(c) == <<Ins("int", c)>>

\* UnaryExpr(op, .., arg): the argument's code, then the opcode.
Unary(o, x) == x \o <<Ins(o, 0)>>

\* BinaryExpr(op, .., argLeft, argRight): both arguments' code in order,
\* then the opcode.
Binary(o, x, y) == x \o y \o <<Ins(o, 0)>>

\* ParametrizedLeafExpr(op, n, expr_inputs=[x]): the inputs' code, then the
\* opcode with its immediate argument.
Parametrized(o, n, x) == x \o <<Ins(o, n)>>

\* If(cond, thenBranch, elseBranch): the condition, a branch-if-non-zero over
\* the else arm, the else arm, a jump over the then arm, the then arm.
\* Branch arguments are relative: the number of instructions skipped.
IfExpr(c, t, e) ==
    c \o <<Ins("bnz", Len(e) + 1)>> \o e \o <<Ins("b", Len(t))>> \o t

\* SInt_Add step 1 with the sign of the left operand read from a second
\* evaluation of the operand instead of a dup.
AddStep1_SignFromOperand(left) ==
    LET e2 == left \o Binary("getbit", left, IntC(SignBit))
        e3 == Unary("dup", e2)
        e4 == Parametrized("uncover", 2, e3)
    IN  e4

\* SInt_Add step 1: the first operand, its sign, the sign again, and the
\* operand brought back to the top.
AddStep1(left) ==
    LET e1 == Unary("dup", left)
        e2 == Binary("getbit", e1, IntC(SignBit))
        e3 == Unary("dup", e2)
        e4 == Parametrized("uncover", 2, e3)
    IN  e4

\* SInt_Add step 2: the second operand and its sign, covered by 3.
AddStep2(e4, right) ==
    LET e5 == Binary("dup", e4, right)
        e6 == Binary("getbit", e5, IntC(SignBit))
        e7 == Parametrized("cover", 3, e6)
    IN  e7

\* SInt_Add step 3 with the low word covered but the result's sign left
\* above it.
AddStep3_OneCover(e7) ==
    LET e8  == Unary("addw", e7)
        e9  == Unary("dup", e8)
        e10 == Binary("getbit", e9, IntC(SignBit))
        e11 == Parametrized("cover", 5, e10)
        e13 == Unary("pop", e11)
    IN  e13

\* SInt_Add step 3: wide addition, the result's sign covered by 5, the low
\* word covered by 5, the high word popped.
AddStep3(e7) ==
    LET e8  == Unary("addw", e7)
        e9  == Unary("dup", e8)
        e10 == Binary("getbit", e9, IntC(SignBit))
        e11 == Parametrized("cover", 5, e10)
        e12 == Parametrized("cover", 5, e11)
        e13 == Unary("pop", e12)
    IN  e13

\* SInt_Add step 4: XOR of the operands' signs, covered by 2.
AddStep4(e13) ==
    LET e14 == Unary("^", e13)
        e15 == Parametrized("cover", 2, e14)
    IN  e15

\* SInt_Add step 5 with XOR where XNOR is meant: the logical not is missing.
AddStep5_NoLogicNot(e15) ==
    LET e16 == Unary("^", e15)
        e18 == Unary("||", e16)
        e19 == Unary("assert", e18)
    IN  e19

\* SInt_Add step 5: XNOR of an operand's and the result's sign, OR, assert.
AddStep5(e15) ==
    LET e16 == Unary("^", e15)
        e17 == Unary("!", e16)
        e18 == Unary("||", e17)
        e19 == Unary("assert", e18)
    IN  e19

\* SInt_Add(left, right), with the code of its operands in place.
SInt_Add(left, right) ==
    AddStep5(AddStep4(AddStep3(AddStep2(AddStep1(left), right))))

\* SInt_twos_complement with the swap missing: pop drops the low word.
SInt_twos_complement_NoSwap(operand) ==
    LET xorred       == Binary("^", operand, IntC(MaxWord))
        complemented == Binary("addw", xorred, IntC(1))
        popped       == Unary("pop", complemented)
    IN  popped

\* SInt_twos_complement(operand)
SInt_twos_complement(operand) ==
    LET xorred       == Binary("^", operand, IntC(MaxWord))
        complemented == Binary("addw", xorred, IntC(1))
        swapped      == Unary("swap", complemented)
        popped       == Unary("pop", swapped)
    IN  popped

\* SInt_Sub with the right operand added as it is.
SInt_Sub_NoNegate(left, right) == SInt_Add(left, right)

\* SInt_Sub(left, right)
SInt_Sub(left, right) == SInt_Add(left, SInt_twos_complement(right))

\* SInt_rshift(left, right)
SInt_rshift(left, right) ==
    LET e1 == Unary("dup", left)
        e2 == Binary("getbit", e1, IntC(SignBit))
        e3 == Parametrized("cover", 1, e2)
        e4 == Binary("shr", e3, right)
        e5 == Parametrized("cover", 1, e4)
        e6 == IfExpr(e5,
                     Binary("shl", IntC(MaxWord),
                            Binary("-", IntC(WordBits), right)),
                     IntC(0))
        e7 == Unary("|", e6)
    IN  e7

---------------------------------------------------------------------------
\* The stack.

Cell(w) == [v |-> w, dup |-> FALSE]
Copy(w) == [v |-> w, dup |-> TRUE]

Depth == Len(stack)
\* The cell at depth d (0 is the top).
At(d) == stack[Len(stack) - d]
\* The stack without its n topmost cells.
Below(n) == SubSeq(stack, 1, Len(stack) - n)
\* The n topmost cells, lowest first.
Above(n) == SubSeq(stack, Len(stack) - n + 1, Len(stack))

\* The words of a stack of cells.
Vals(s) == [i \in 1 .. Len(s) |-> s[i].v]

\* The words found on the stack when a sequence starts: any number of them
\* up to MaxInitStack, alternately the all-ones word and 1.
StackWord(i) == IF i % 2 = 1 THEN MaxWord ELSE 1
InitStacks == {[i \in 1 .. k |-> StackWord(i)] : k \in 0 .. MaxInitStack}

buildVars == <<lits, args, err, last, fn, code, S0>>

Running(o) == status = "run" /\ pc \in 1 .. Len(code) /\ code[pc].op = o

\* The instruction completes and leaves the stack s.
Exec(s) ==
    /\ stack' = s
    /\ pc' = pc + 1
    /\ UNCHANGED <<status, trapOp>>

\* The instruction fails: the program ends unsuccessfully.
Fail ==
    /\ status' = "trap"
    /\ trapOp' = code[pc].op
    /\ UNCHANGED <<pc, stack>>

---------------------------------------------------------------------------
Init ==
    /\ lits = <<>>
    /\ args = <<>>
    /\ err = "none"
    /\ last = [n |-> 0, ok |-> TRUE, value |-> 0]
    /\ fn = "none"
    /\ code = <<>>
    /\ pc = 1
    /\ stack = <<>>
    /\ S0 \in InitStacks
    /\ status = "build"
    /\ trapOp = "none"
    /\ evals = <<0, 0>>
    /\ signSrc = {}

\* A call SInt(n) while the expression is built.
CallSInt(n) ==
    /\ status = "build"
    /\ err = "none"
    /\ Len(args) < 2
    /\ last' = SInt(n)
    /\ IF SInt(n).ok
       THEN /\ lits' = Append(lits, n)
            /\ args' = Append(args, SInt(n).value)
            /\ err' = err
       ELSE /\ err' = "ValueError"
            /\ UNCHANGED <<lits, args>>
    /\ UNCHANGED <<fn, code, pc, stack, S0, status, trapOp, evals, signSrc>>

\* The sequence of subroutine f starts on the stack S0.
Start(f, c) ==
    /\ status = "build"
    /\ err = "none"
    /\ fn' = f
    /\ code' = c
    /\ pc' = 1
    /\ stack' = [i \in 1 .. Len(S0) |-> Cell(S0[i])]
    /\ status' = "run"
    /\ UNCHANGED <<lits, args, err, last, S0, trapOp, evals, signSrc>>

RunAdd ==
    Len(args) = 2 /\ Start("SInt_Add", SInt_Add(Operand(1), Operand(2)))

RunSub ==
    Len(args) = 2 /\ Start("SInt_Sub", SInt_Sub(Operand(1), Operand(2)))

RunRshift ==
    Len(args) = 2 /\ Start("SInt_rshift", SInt_rshift(Operand(1), Operand(2)))

RunTwosComplement ==
    Len(args) = 1
    /\ Start("SInt_twos_complement", SInt_twos_complement(Operand(1)))

---------------------------------------------------------------------------
\* One action per opcode.  An opcode that finds too few words on the stack,
\* or an argument outside its domain, fails the program.

ghost == <<evals, signSrc>>

\* An operand sub-expression is evaluated: its word is pushed.
OpExpr ==
    /\ Running("expr")
    /\ Exec(Append(stack, Cell(args[code[pc].arg])))
    /\ evals' = [evals EXCEPT ![code[pc].arg] = @ + 1]
    /\ UNCHANGED <<buildVars, signSrc>>

\* int c
OpInt ==
    /\ Running("int")
    /\ Exec(Append(stack, Cell(code[pc].arg)))
    /\ UNCHANGED <<buildVars, ghost>>

\* dup
OpDup ==
    /\ Running("dup")
    /\ IF Depth < 1 THEN Fail ELSE Exec(Append(stack, Copy(At(0).v)))
    /\ UNCHANGED <<buildVars, ghost>>

\* getbit: bit B of the word A, for the index B on top and A below it.
OpGetbit ==
    /\ Running("getbit")
    /\ IF Depth < 2 \/ At(0).v >= WordBits
       THEN Fail /\ UNCHANGED signSrc
       ELSE /\ Exec(Append(Below(2), Cell(GetBitOf(At(1).v, At(0).v))))
            /\ signSrc' = signSrc \cup {IF At(1).dup THEN "dup" ELSE "other"}
    /\ UNCHANGED <<buildVars, evals>>

\* cover n: the top word moves below the n words under it.
OpCover ==
    /\ Running("cover")
    /\ LET n == code[pc].arg
       IN  IF Depth < n + 1 THEN Fail
           ELSE Exec(Below(n + 1) \o <<At(0)>>
                     \o SubSeq(stack, Depth - n, Depth - 1))
    /\ UNCHANGED <<buildVars, ghost>>

\* uncover n: the word at depth n moves to the top.
OpUncover ==
    /\ Running("uncover")
    /\ LET n == code[pc].arg
       IN  IF Depth < n + 1 THEN Fail
           ELSE Exec(Below(n + 1) \o Above(n) \o <<At(n)>>)
    /\ UNCHANGED <<buildVars, ghost>>

\* addw: the carry, then the low word of A + B on top of it.
OpAddw ==
    /\ Running("addw")
    /\ IF Depth < 2 THEN Fail
       ELSE LET sum == At(1).v + At(0).v
            IN  Exec(Below(2) \o <<Cell(sum \div Word2), Cell(sum % Word2)>>)
    /\ UNCHANGED <<buildVars, ghost>>

\* pop
OpPop ==
    /\ Running("pop")
    /\ IF Depth < 1 THEN Fail ELSE Exec(Below(1))
    /\ UNCHANGED <<buildVars, ghost>>

\* swap
OpSwap ==
    /\ Running("swap")
    /\ IF Depth < 2 THEN Fail ELSE Exec(Below(2) \o <<At(0), At(1)>>)
    /\ UNCHANGED <<buildVars, ghost>>

\* ^
OpBitwiseXor ==
    /\ Running("^")
    /\ IF Depth < 2 THEN Fail
       ELSE Exec(Append(Below(2), Cell(BitXor(At(1).v, At(0).v))))
    /\ UNCHANGED <<buildVars, ghost>>

\* |
OpBitwiseOr ==
    /\ Running("|")
    /\ IF Depth < 2 THEN Fail
       ELSE Exec(Append(Below(2), Cell(BitOr(At(1).v, At(0).v))))
    /\ UNCHANGED <<buildVars, ghost>>

\* !
OpLogicNot ==
    /\ Running("!")
    /\ IF Depth < 1 THEN Fail
       ELSE Exec(Append(Below(1), Cell(IF At(0).v = 0 THEN 1 ELSE 0)))
    /\ UNCHANGED <<buildVars, ghost>>

\* ||
OpLogicOr ==
    /\ Running("||")
    /\ IF Depth < 2 THEN Fail
       ELSE Exec(Append(Below(2),
                        Cell(IF At(1).v # 0 \/ At(0).v # 0 THEN 1 ELSE 0)))
    /\ UNCHANGED <<buildVars, ghost>>

\* assert: fails unless the word on top is non-zero.
OpAssert ==
    /\ Running("assert")
    /\ IF Depth < 1 \/ At(0).v = 0 THEN Fail ELSE Exec(Below(1))
    /\ UNCHANGED <<buildVars, ghost>>

\* shr: A divided by 2^B; fails for a shift amount B above 63.
OpShr ==
    /\ Running("shr")
    /\ IF Depth < 2 \/ At(0).v > SignBit THEN Fail
       ELSE Exec(Append(Below(2), Cell(At(1).v \div Pow2(At(0).v))))
    /\ UNCHANGED <<buildVars, ghost>>

\* shl: A times 2^B modulo 2^64; fails for a shift amount B above 63.
OpShl ==
    /\ Running("shl")
    /\ IF Depth < 2 \/ At(0).v > SignBit THEN Fail
       ELSE Exec(Append(Below(2), Cell((At(1).v * Pow2(At(0).v)) % Word2)))
    /\ UNCHANGED <<buildVars, ghost>>

\* -: A - B; fails when B > A.
OpMinus ==
    /\ Running("-")
    /\ IF Depth < 2 \/ At(0).v > At(1).v THEN Fail
       ELSE Exec(Append(Below(2), Cell(At(1).v - At(0).v)))
    /\ UNCHANGED <<buildVars, ghost>>

\* bnz: pops the condition and branches when it is non-zero.
OpBnz ==
    /\ Running("bnz")
    /\ IF Depth < 1 THEN Fail
       ELSE /\ stack' = Below(1)
            /\ pc' = IF At(0).v # 0 THEN pc + 1 + code[pc].arg ELSE pc + 1
            /\ UNCHANGED <<status, trapOp>>
    /\ UNCHANGED <<buildVars, ghost>>

\* b: unconditional branch.
OpB ==
    /\ Running("b")
    /\ pc' = pc + 1 + code[pc].arg
    /\ UNCHANGED <<stack, status, trapOp, buildVars, ghost>>

\* The end of the sequence is reached.
Halt ==
    /\ status = "run"
    /\ pc = Len(code) + 1
    /\ status' = "done"
    /\ UNCHANGED <<pc, stack, trapOp, buildVars, ghost>>

Next ==
    \/ \E n \in LitInputs : CallSInt(n)
    \/ RunAdd
    \/ RunSub
    \/ RunRshift
    \/ RunTwosComplement
    \/ OpExpr
    \/ OpInt
    \/ OpDup
    \/ OpGetbit
    \/ OpCover
    \/ OpUncover
    \/ OpAddw
    \/ OpPop
    \/ OpSwap
    \/ OpBitwiseXor
    \/ OpBitwiseOr
    \/ OpLogicNot
    \/ OpLogicOr
    \/ OpAssert
    \/ OpShr
    \/ OpShl
    \/ OpMinus
    \/ OpBnz
    \/ OpB
    \/ Halt

Spec == Init /\ [][Next]_vars

---------------------------------------------------------------------------
\* Properties.

\* The signed integers behind the operand words.
A == lits[1]
B == lits[2]

\* The two's-complement word of an integer: n mod 2^64.
Enc(n) == n % Word2

\* The signed integer a word stands for: bit 63 is the sign.
Decode(w) == IF GetBitOf(w, SignBit) = 1 THEN w - Word2 ELSE w

\* The sequence has ended with S0 and the single word w above it.
Leaves(w) == status = "done" => Vals(stack) = Append(S0, w)

\* An execution is never stuck inside its sequence.
PcInCode == status = "run" => pc \in 1 .. Len(code) + 1

\* How often operand i's code occurs in the sequence c.
Occurrences(c, i) ==
    Cardinality({j \in 1 .. Len(c) : c[j] = Ins("expr", i)})

\* C1: SInt_Add on a and b with a representable sum never traps and ends
\* with the initial stack followed by exactly the word (a+b) mod 2^64.
ThmC1_AddNoOverflow ==
    (fn = "SInt_Add" /\ InRange(A + B)) =>
        /\ status # "trap"
        /\ PcInCode
        /\ Leaves(Enc(A + B))

WitC1_AddNoOverflow ==
    /\ fn = "SInt_Add"
    /\ status = "done"
    /\ S0 # <<>>
    /\ A < 0
    /\ B > 0
    /\ A + B >= 0

\* C2: SInt_Add on a and b whose sum is not representable never completes:
\* it fails at assert on a zero operand.  The word assert finds is
\* (sign(a) XOR sign(b)) OR NOT (sign(a) XOR sign(low word)), and it is
\* zero exactly when a+b is out of range.
ThmC2_AddOverflowTraps ==
    /\ (fn = "SInt_Add" /\ ~InRange(A + B)) =>
          /\ status # "done"
          /\ PcInCode
          /\ status = "trap" => (trapOp = "assert" /\ At(0).v = 0)
    /\ (fn = "SInt_Add" /\ Running("assert")) =>
          LET sa == GetBitOf(args[1], SignBit)
              sb == GetBitOf(args[2], SignBit)
              sc == GetBitOf((args[1] + args[2]) % Word2, SignBit)
          IN  /\ At(0).v = (IF sa # sb \/ sa = sc THEN 1 ELSE 0)
              /\ At(0).v = 0 <=> ~InRange(A + B)

WitC2_AddOverflowTraps ==
    /\ fn = "SInt_Add"
    /\ status = "trap"
    /\ trapOp = "assert"
    /\ A < 0
    /\ B < 0
    /\ A + B < MinSInt

\* C3: SInt_rshift on a and a shift amount k in 0..63 never traps and
\* leaves the word of floor(a / 2^k).
CexC3_RshiftFloor ==
    (fn = "SInt_rshift" /\ args[2] <= SignBit) =>
        /\ status # "trap"
        /\ Leaves(Enc(A \div Pow2(args[2])))

\* C4: SInt_Sub on a and b, b not the most negative number, leaves the word
\* of a-b without trapping when a-b is representable and traps otherwise.
ThmC4_SubResult ==
    (fn = "SInt_Sub" /\ B # MinSInt) =>
        /\ PcInCode
        /\ InRange(A - B) => (status # "trap" /\ Leaves(Enc(A - B)))
        /\ ~InRange(A - B) => status # "done"

WitC4_SubResult ==
    /\ fn = "SInt_Sub"
    /\ status = "done"
    /\ B > 0
    /\ A - B = -1

\* C5: SInt_twos_complement on a word x never traps and leaves exactly
\* ((x XOR (2^64-1)) + 1) mod 2^64: the word of -a for every a but the most
\* negative number, whose bit pattern 2^63 it leaves unchanged.
ThmC5_TwosComplement ==
    fn = "SInt_twos_complement" =>
        /\ status # "trap"
        /\ PcInCode
        /\ Leaves((BitXor(args[1], MaxWord) + 1) % Word2)
        /\ A # MinSInt => Leaves(Enc(-A))
        /\ A = MinSInt => (args[1] = Pow2(SignBit) /\ Leaves(args[1]))

WitC5_TwosComplement ==
    /\ fn = "SInt_twos_complement"
    /\ status = "done"
    /\ A = MinSInt
    /\ S0 # <<>>

\* C6: SInt returns n mod 2^64 for every n in the signed range, decoding it
\* gives n back and the words of distinct integers differ (2^64 integers
\* onto as many words, so every word is reached); outside the range SInt
\* raises and no constant is returned.
ThmC6_SIntEncoding ==
    /\ InRange(last.n) =>
          /\ last.ok
          /\ last.value = Enc(last.n)
          /\ last.n >= 0 => last.value = last.n
          /\ Decode(last.value) = last.n
    /\ ~InRange(last.n) =>
          /\ ~last.ok
          /\ err = "ValueError"
          /\ status = "build"
    /\ Len(args) = Len(lits)
    /\ \A i \in 1 .. Len(lits) :
          /\ InRange(lits[i])
          /\ args[i] \in Words
          /\ Decode(args[i]) = lits[i]
    /\ \A i, j \in 1 .. Len(lits) : lits[i] # lits[j] => args[i] # args[j]

WitC6_SIntEncoding ==
    /\ Len(lits) = 1
    /\ lits[1] = MinSInt
    /\ ~InRange(last.n)
    /\ err = "ValueError"

\* C7: the sequence of SInt_Add holds the code of each operand once, every
\* execution evaluates each operand exactly once, and every word whose
\* sign bit is read is a dup of a word already on the stack.
ThmC7_AddEvaluatesOnce ==
    fn = "SInt_Add" =>
        /\ Occurrences(code, 1) = 1
        /\ Occurrences(code, 2) = 1
        /\ evals[1] <= 1
        /\ evals[2] <= 1
        /\ status \in {"done", "trap"} => evals = <<1, 1>>
        /\ signSrc \subseteq {"dup"}

WitC7_AddEvaluatesOnce ==
    /\ fn = "SInt_Add"
    /\ status = "trap"
    /\ evals = <<1, 1>>
    /\ signSrc = {"dup"}

\* C8: SInt_rshift on any a, negative or not, and the shift amount 0
\* completes without trapping and leaves the word of a unchanged.
CexC8_RshiftByZero ==
    (fn = "SInt_rshift" /\ args[2] = 0) =>
        /\ status # "trap"
        /\ Leaves(args[1])

\* C9: whenever SInt_Sub on a and b completes, b the most negative number
\* included, the word it leaves is that of a-b with a-b representable.
CexC9_SubNeverWraps ==
    (fn = "SInt_Sub" /\ status = "done") =>
        /\ InRange(A - B)
        /\ Leaves(Enc(A - B))

\* C10: every execution of the sequence of SInt_rshift evaluates each
\* operand at most once, for a non-negative and for a negative shifted
\* value.
CexC10_RshiftEvaluatesOnce ==
    fn = "SInt_rshift" => (evals[1] <= 1 /\ evals[2] <= 1)

=============================================================================
